---- MODULE Spec2Model ----
(***************************************************************************)
(* Residual-prioritised loopy belief propagation on a lattice MRF          *)
(* (apps/image_denoise/loopybp_denoise.cpp): main, construct_graph and     *)
(* bp_update, together with the collaborators they call (the factor        *)
(* algebra, the task scheduler, the engine's workers and scopes).          *)
(*                                                                         *)
(* Factors are kept in probability space on a fixed-point grid: a unary    *)
(* factor of arity k is a sequence of k positive integers, the weights     *)
(* exp(logP) in units of 1/Q.  Every operation is the probability-space    *)
(* reading of the log-space operation, followed by rounding to the grid.   *)
(***************************************************************************)
EXTENDS Integers, Sequences, FiniteSets, TLC

\* ------------------------------------------------------------------ bounds
\* rows and cols of the image range over 1..MaxDim
MaxDim == 2
\* number of engine workers (ncpus)
NumWorkers == 2
\* the engine's cap on the number of dispatched updates
MaxUpdates == 6
\* a cap on the updates of one run that ends it early
SmallCap == 2

\* ------------------------------------------------------- model resolution
\* a normalised factor sums to Q (up to rounding)
Q == 8
\* damping is the fraction damping / DampDen
DampDen == 2
\* option colors (number of states of every variable)
colors == 2
\* weight exp(lambda) of agreeing states in the edge factor
ExpLambda == 3
\* weight exp(1 / (2 sigma^2)) of the observed state in a vertex potential
ExpSigma == 3
\* size_t arithmetic wraps modulo WordModulus
WordModulus == 1073741824
\* priority given to every vertex by add_task_to_all
SeedPriority == 100
\* the scheduler's mark of a vertex that is not pending
Idle == -1

Max(a, b) == IF a >= b THEN a ELSE b
Abs(a) == IF a >= 0 THEN a ELSE -a

\* ---------------------------------------------------------------- factors
RECURSIVE SumTo(_, _)
SumTo(f, n) == IF n = 0 THEN 0 ELSE f[n] + SumTo(f, n - 1)

RECURSIVE ProdExcept(_, _, _)
ProdExcept(g, s, n) ==
    IF n = 0 THEN 1
    ELSE (IF n = s THEN 1 ELSE g[n]) * ProdExcept(g, s, n - 1)

\* unary_factor::uniform after resize(k): every logP is 0, every weight 1
uniform(k) == [s \in 1..k |-> 1]

\* unary_factor::normalize: divide by the sum; round to the grid, floor 1
normalize(f) ==
    LET z == SumTo(f, Len(f))
    IN  [s \in 1..Len(f) |-> Max(1, (2 * Q * f[s] + z) \div (2 * z))]

\* unary_factor::times: pointwise product
times(f, g) == [s \in 1..Len(f) |-> f[s] * g[s]]

\* unary_factor::divide: pointwise quotient, kept exact up to the common
\* scale prod(g) that the following normalize removes
divide(f, g) == [s \in 1..Len(f) |-> f[s] * ProdExcept(g, s, Len(g))]

\* unary_factor::convolve: out[s] = sum over t of bin[s][t] * cav[t]
convolve(bin, cav) ==
    [s \in 1..Len(bin) |->
        SumTo([t \in 1..Len(cav) |-> bin[s][t] * cav[t]], Len(cav))]

\* a damp that puts the weight alpha on the new value
dampTowardsNew(new, prev, a) ==
    [s \in 1..Len(new) |->
        (2 * (a * new[s] + (DampDen - a) * prev[s]) + DampDen) \div (2 * DampDen)]

\* unary_factor::damp: alpha * prev + (1 - alpha) * new, alpha = a / DampDen
damp(new, prev, a) ==
    [s \in 1..Len(new) |->
        (2 * (a * prev[s] + (DampDen - a) * new[s]) + DampDen) \div (2 * DampDen)]

\* unary_factor::residual: L1 distance in probability space (units of 1/Q)
residual(f, g) == SumTo([s \in 1..Len(f) |-> Abs(f[s] - g[s])], Len(f))

\* binary_factor::set_as_agreement
set_as_agreement(k) ==
    [s \in 1..k |-> [t \in 1..k |-> IF s = t THEN ExpLambda ELSE 1]]

\* binary_factor::set_as_laplace: weight exp(-lambda |s - t|), scaled
set_as_laplace(k) ==
    [s \in 1..k |-> [t \in 1..k |->
        IF s = t THEN ExpLambda * ExpLambda
        ELSE IF Abs(s - t) = 1 THEN ExpLambda ELSE 1]]

\* ---------------------------------------------------------------- graph
\* image::vertid: row-major numbering, the order add_vertex hands out ids
vertid(i, j, ncols) == i * ncols + j

\* i - 1 on size_t
Dec(x) == (x - 1) % WordModulus

Edge(u, v) == [source |-> u, target |-> v]

\* the four tests on signed integers: i - 1 and j - 1 do not wrap
CellEdgesSigned(i, j, nrows, ncols) ==
    LET v == vertid(i, j, ncols)
    IN  (IF i - 1 < nrows THEN <<Edge(v, vertid(i - 1, j, ncols))>> ELSE <<>>)
     \o (IF i + 1 < nrows THEN <<Edge(v, vertid(i + 1, j, ncols))>> ELSE <<>>)
     \o (IF j - 1 < ncols THEN <<Edge(v, vertid(i, j - 1, ncols))>> ELSE <<>>)
     \o (IF j + 1 < ncols THEN <<Edge(v, vertid(i, j + 1, ncols))>> ELSE <<>>)

\* the four tests with the column test bounded by the number of rows
CellEdgesRowBound(i, j, nrows, ncols) ==
    LET v == vertid(i, j, ncols)
    IN  (IF Dec(i) < nrows THEN <<Edge(v, vertid(Dec(i), j, ncols))>> ELSE <<>>)
     \o (IF i + 1 < nrows THEN <<Edge(v, vertid(i + 1, j, ncols))>> ELSE <<>>)
     \o (IF Dec(j) < nrows THEN <<Edge(v, vertid(i, Dec(j), ncols))>> ELSE <<>>)
     \o (IF j + 1 < ncols THEN <<Edge(v, vertid(i, j + 1, ncols))>> ELSE <<>>)

\* the edges added for cell (i, j), in the order of the four tests
CellEdges(i, j, nrows, ncols) ==
    LET v == vertid(i, j, ncols)
    IN  (IF Dec(i) < nrows THEN <<Edge(v, vertid(Dec(i), j, ncols))>> ELSE <<>>)
     \o (IF i + 1 < nrows THEN <<Edge(v, vertid(i + 1, j, ncols))>> ELSE <<>>)
     \o (IF Dec(j) < ncols THEN <<Edge(v, vertid(i, Dec(j), ncols))>> ELSE <<>>)
     \o (IF j + 1 < ncols THEN <<Edge(v, vertid(i, j + 1, ncols))>> ELSE <<>>)

\* the edges added by the first n cells of the double loop
RECURSIVE EdgesUpTo(_, _, _)
EdgesUpTo(n, nrows, ncols) ==
    IF n = 0 THEN <<>>
    ELSE EdgesUpTo(n - 1, nrows, ncols)
         \o CellEdges((n - 1) \div ncols, (n - 1) % ncols, nrows, ncols)

\* the potential of a pixel observed as obs
Potential(obs) ==
    normalize([pred \in 1..colors |-> IF obs = pred - 1 THEN ExpSigma ELSE 1])

\* graph::finalize: edge ids in S ordered by key, then by id
RECURSIVE SortIds(_, _)
SortIds(S, key) ==
    IF S = {} THEN <<>>
    ELSE LET m == CHOOSE x \in S :
                    \A y \in S : key[x] < key[y] \/ (key[x] = key[y] /\ x <= y)
         IN  <<m>> \o SortIds(S \ {m}, key)

\* -------------------------------------------------------------- scheduler
\* the scheduler holds one task (vertex, priority) per pending vertex
Task(v, p) == [vertex |-> v, priority |-> p]
Pending(sc) == {t.vertex : t \in sc}
MaxOf(S) == CHOOSE x \in S : \A y \in S : x >= y
PriorityOf(sc, v) ==
    IF v \in Pending(sc) THEN MaxOf({t.priority : t \in {x \in sc : x.vertex = v}})
    ELSE Idle

\* add_task that overwrites the pending priority
add_task_overwrite(sc, v, p) ==
    (sc \ {t \in sc : t.vertex = v}) \cup {Task(v, p)}

\* add_task(v, p): v becomes pending with priority max(current, p)
add_task(sc, v, p) ==
    LET old == {t \in sc : t.vertex = v}
    IN  (sc \ old) \cup {Task(v, MaxOf({p} \cup {t.priority : t \in old}))}

\* a top task that breaks ties towards the highest id
TopTaskLastId(sc) ==
    CHOOSE t \in sc :
        \A u \in sc : t.priority > u.priority
                      \/ (t.priority = u.priority /\ t.vertex >= u.vertex)

\* the task get_next_task hands out: top priority, lowest id among ties
TopTask(sc) ==
    CHOOSE t \in sc :
        \A u \in sc : t.priority > u.priority
                      \/ (t.priority = u.priority /\ t.vertex <= u.vertex)

\* get_next_task removes the task it hands out
remove_task(sc, t) == sc \ {t}

\* torn copies: each entry taken from a or from b (a read racing a write)
Mixes(a, b) ==
    IF Len(a) # Len(b) THEN {a, b}
    ELSE {[s \in 1..Len(a) |-> IF s \in T THEN b[s] ELSE a[s]] :
            T \in SUBSET (1..Len(a))}

\* ------------------------------------------------------------------ state
VARIABLES
    pc,            \* position of main
    opts,          \* the options and the image main works with
    vdata,         \* vertex id -> vertex_data (potential, belief)
    edges,         \* edge id -> (source, target), in add_edge order
    edata,         \* edge id -> edge_data (message, old_message)
    in_edge_ids,   \* vertex id -> in-edge ids as finalize orders them
    out_edge_ids,  \* vertex id -> out-edge ids as finalize orders them
    shared_data,   \* the shared constants EDGE_FACTOR_ID, BOUND_ID, DAMPING_ID
    sched,         \* scheduler: vertex id -> pending priority, or Idle
    worker,        \* engine worker -> its position in get task / bp_update
    update_count,  \* completed updates (core.last_update_count)
    hist           \* observations: last residual of an edge, unread commits,
                   \* completed updates of a vertex

vars == <<pc, opts, vdata, edges, edata, in_edge_ids, out_edge_ids,
          shared_data, sched, worker, update_count, hist>>

Workers == 1..NumWorkers
Vertices == DOMAIN vdata
EdgeIds == DOMAIN edges

\* the images main is handed: a dark field with one bright corner pixel
Images(n) == {[v \in 0..(n - 1) |-> IF v = p THEN 1 ELSE 0] : p \in {0}}

\* command line options (lines 119-176) and the image of lines 209-216:
\* every image size under the default scope "edge"; the scope "vertex",
\* whose races multiply the interleavings, on the single-row images; the
\* smoothing "square" with the other options at their first value
AllOptions ==
    UNION {{[rows |-> r, cols |-> c, pixel |-> im, smoothing |-> sm,
             scope_type |-> st, bound |-> b, damping |-> d,
             max_updates |-> cap] :
               im \in Images(r * c),
               sm \in {"laplace", "square", "gauss"},
               st \in IF r = 1 THEN {"edge", "vertex"} ELSE {"edge"},
               b \in {0, 1}, d \in 0..DampDen,
               cap \in {SmallCap, MaxUpdates}} :
           r \in 1..MaxDim, c \in 1..MaxDim}

Options ==
    {o \in AllOptions :
        o.smoothing = "square" =>
            /\ o.scope_type = "edge" /\ o.bound = 0 /\ o.damping = 0
            /\ o.max_updates = MaxUpdates}

\* a worker outside bp_update; status names the failure of its last update
IdleWorker(st) ==
    [pc |-> "idle", v |-> -1, i |-> 0, tmp_msg |-> <<>>, residual |-> 0,
     pre |-> <<>>, status |-> st]

Init ==
    /\ pc = "construct"
    /\ opts \in Options
    /\ vdata = <<>>
    /\ edges = <<>>
    /\ edata = <<>>
    /\ in_edge_ids = <<>>
    /\ out_edge_ids = <<>>
    /\ shared_data = <<>>
    /\ sched = {}
    /\ worker = [k \in Workers |-> IdleWorker("none")]
    /\ update_count = 0
    /\ hist = <<>>

\* ------------------------------------------------------------------- main
\* construct_graph (line 228): vertices, edges, finalize
ConstructGraph ==
    /\ pc = "construct"
    /\ LET n  == opts.rows * opts.cols
           es == EdgesUpTo(n, opts.rows, opts.cols)
           m0 == normalize(uniform(colors))
       IN  /\ vdata' = [v \in 0..(n - 1) |->
                          [potential |-> Potential(opts.pixel[v]),
                           belief    |-> normalize(uniform(colors))]]
           /\ edges' = es
           /\ edata' = [e \in 1..Len(es) |-> [message |-> m0, old_message |-> m0]]
           /\ in_edge_ids' = [v \in 0..(n - 1) |->
                 SortIds({e \in 1..Len(es) : es[e].target = v},
                         [e \in 1..Len(es) |-> es[e].source])]
           /\ out_edge_ids' = [v \in 0..(n - 1) |->
                 SortIds({e \in 1..Len(es) : es[e].source = v},
                         [e \in 1..Len(es) |-> es[e].target])]
           /\ hist' = [lastResid |-> [e \in 1..Len(es) |-> -1],
                       unread    |-> [e \in 1..Len(es) |-> FALSE],
                       pushes    |-> [v \in 0..(n - 1) |-> <<>>],
                       updates   |-> [v \in 0..(n - 1) |-> 0]]
    /\ pc' = "smoothing"
    /\ UNCHANGED <<opts, shared_data, sched, worker, update_count>>

\* lines 236-250 without the return of line 244
SetSharedDataNoReturn ==
    /\ pc = "smoothing"
    /\ shared_data' = [edge_factor |-> IF opts.smoothing = "square"
                                       THEN set_as_agreement(colors)
                                       ELSE set_as_laplace(colors),
                       bound |-> opts.bound, damping |-> opts.damping]
    /\ pc' = "add_tasks"
    /\ UNCHANGED <<opts, vdata, edges, edata, in_edge_ids, out_edge_ids,
                   sched, worker, update_count, hist>>

\* lines 236-250: the edge factor by smoothing name, then the constants
SetSharedData ==
    /\ pc = "smoothing"
    /\ IF opts.smoothing = "square"
       THEN /\ shared_data' = [edge_factor |-> set_as_agreement(colors),
                               bound |-> opts.bound, damping |-> opts.damping]
            /\ pc' = "add_tasks"
       ELSE IF opts.smoothing = "laplace"
       THEN /\ shared_data' = [edge_factor |-> set_as_laplace(colors),
                               bound |-> opts.bound, damping |-> opts.damping]
            /\ pc' = "add_tasks"
       ELSE /\ shared_data' = shared_data
            /\ pc' = "exit_failure"
    /\ UNCHANGED <<opts, vdata, edges, edata, in_edge_ids, out_edge_ids,
                   sched, worker, update_count, hist>>

\* a seeding that reaches the first vertex only
AddTaskToFirst ==
    /\ pc = "add_tasks"
    /\ sched' = {Task(0, SeedPriority * Q)}
    /\ pc' = "running"
    /\ UNCHANGED <<opts, vdata, edges, edata, in_edge_ids, out_edge_ids,
                   shared_data, worker, update_count, hist>>

\* core.add_task_to_all(bp_update, 100.0), then core.start()
AddTaskToAll ==
    /\ pc = "add_tasks"
    /\ sched' = {Task(v, SeedPriority * Q) : v \in Vertices}
    /\ pc' = "running"
    /\ UNCHANGED <<opts, vdata, edges, edata, in_edge_ids, out_edge_ids,
                   shared_data, worker, update_count, hist>>

\* ----------------------------------------------------------------- engine
InUpdate(k) == worker[k].pc \in {"snap", "belief", "compute", "commit", "push"}
InFlight(v) == \E k \in Workers : InUpdate(k) /\ worker[k].v = v
Dispatched == update_count + Cardinality({k \in Workers : worker[k].pc # "idle"})
Neighbours(v) == {edges[e].target : e \in {x \in EdgeIds : edges[x].source = v}}
                 \cup {edges[e].source : e \in {x \in EdgeIds : edges[x].target = v}}

\* the scope of v taken as the lock on v alone
ScopeFreeVertexOnly(v) == ~InFlight(v)

\* the scope of v can be locked: v itself, and with edge consistency its
\* adjacent vertices, are in no update
ScopeFree(v) ==
    /\ ~InFlight(v)
    /\ opts.scope_type = "edge" => \A u \in Neighbours(v) : ~InFlight(u)

\* a worker takes the top task from the scheduler
GetNextTask(k) ==
    /\ pc = "running"
    /\ worker[k].pc = "idle"
    /\ \A j \in Workers : j < k => worker[j].pc # "idle"
    /\ sched # {}
    /\ Dispatched < opts.max_updates
    /\ LET t == TopTask(sched)
       IN  /\ sched' = remove_task(sched, t)
           /\ worker' = [worker EXCEPT ![k] =
                            [IdleWorker("none") EXCEPT !.pc = "acquire", !.v = t.vertex]]
    /\ UNCHANGED <<pc, opts, vdata, edges, edata, in_edge_ids, out_edge_ids,
                   shared_data, update_count, hist>>

\* what bp_update of v may write: kept to compare with on a failure
OwnData(v) ==
    [belief      |-> vdata[v].belief,
     old_message |-> [i \in 1..Len(in_edge_ids[v]) |->
                         edata[in_edge_ids[v][i]].old_message],
     message     |-> [i \in 1..Len(out_edge_ids[v]) |->
                         edata[out_edge_ids[v][i]].message]]

\* the worker locks the scope and enters bp_update (lines 309-325)
EnterUpdate(k) ==
    /\ pc = "running"
    /\ worker[k].pc = "acquire"
    /\ ScopeFree(worker[k].v)
    /\ LET v == worker[k].v
       IN  /\ worker' = [worker EXCEPT ![k] =
                 IF Len(in_edge_ids[v]) # Len(out_edge_ids[v])
                 THEN [IdleWorker("assert") EXCEPT !.pc = "abort"]
                 ELSE [@ EXCEPT !.pc = IF Len(in_edge_ids[v]) = 0
                                       THEN "belief" ELSE "snap",
                                !.i = 1, !.pre = OwnData(v)]]
           /\ hist' = [hist EXCEPT !.pushes[v] = <<>>]
    /\ UNCHANGED <<pc, opts, vdata, edges, edata, in_edge_ids, out_edge_ids,
                   shared_data, sched, update_count>>

\* the values a copy of edge e's message can read: the message, or a torn
\* copy while the update of e's source is about to assign it (line 390)
ReadMessage(e) ==
    LET W == {j \in Workers : /\ worker[j].pc = "commit"
                              /\ out_edge_ids[worker[j].v][worker[j].i] = e}
    IN  IF W = {} THEN {edata[e].message}
        ELSE UNION {Mixes(edata[e].message, worker[j].tmp_msg) : j \in W}

\* the values a read of edge e's old_message can see: the old_message, or a
\* torn copy while the update of e's target is about to assign it (line 334)
ReadOldMessage(e) ==
    LET W == {j \in Workers : /\ worker[j].pc = "snap"
                              /\ in_edge_ids[worker[j].v][worker[j].i] = e}
    IN  IF W = {} THEN {edata[e].old_message}
        ELSE Mixes(edata[e].old_message, edata[e].message)

\* lines 329-335 exchanging the two messages instead of copying one
SnapshotSwap(k) ==
    /\ pc = "running"
    /\ worker[k].pc = "snap"
    /\ LET v == worker[k].v
           i == worker[k].i
           e == in_edge_ids[v][i]
       IN  /\ \E m \in ReadMessage(e) :
                 edata' = [edata EXCEPT ![e].old_message = m,
                                        ![e].message = edata[e].old_message]
           /\ hist' = [hist EXCEPT !.unread[e] = FALSE]
           /\ worker' = [worker EXCEPT ![k].i = IF i < Len(in_edge_ids[v]) THEN i + 1 ELSE 1,
                                       ![k].pc = IF i < Len(in_edge_ids[v])
                                                 THEN "snap" ELSE "belief"]
    /\ UNCHANGED <<pc, opts, vdata, edges, in_edge_ids, out_edge_ids,
                   shared_data, sched, update_count>>

\* lines 329-335, one in-edge: old_message = message
Snapshot(k) ==
    /\ pc = "running"
    /\ worker[k].pc = "snap"
    /\ LET v == worker[k].v
           i == worker[k].i
           e == in_edge_ids[v][i]
       IN  /\ \E m \in ReadMessage(e) :
                 edata' = [edata EXCEPT ![e].old_message = m]
           /\ hist' = [hist EXCEPT !.unread[e] = FALSE]
           /\ worker' = [worker EXCEPT ![k].i = IF i < Len(in_edge_ids[v]) THEN i + 1 ELSE 1,
                                       ![k].pc = IF i < Len(in_edge_ids[v])
                                                 THEN "snap" ELSE "belief"]
    /\ UNCHANGED <<pc, opts, vdata, edges, in_edge_ids, out_edge_ids,
                   shared_data, sched, update_count>>

\* the belief after lines 340-346 have multiplied in the first n in-edges
RECURSIVE TimesUpTo(_, _)
TimesUpTo(v, n) ==
    IF n = 0 THEN vdata[v].potential
    ELSE times(TimesUpTo(v, n - 1), edata[in_edge_ids[v][n]].old_message)

\* the first in-edge whose old_message has not the potential's arity, or 0
FirstMismatch(v) ==
    LET bad == {i \in 1..Len(in_edge_ids[v]) :
                  Len(edata[in_edge_ids[v][i]].old_message) # Len(vdata[v].potential)}
    IN  IF bad = {} THEN 0 ELSE CHOOSE i \in bad : \A j \in bad : i <= j

\* lines 340-348: belief = potential times every incoming old_message
ComputeBelief(k) ==
    /\ pc = "running"
    /\ worker[k].pc = "belief"
    /\ LET v  == worker[k].v
           n  == Len(in_edge_ids[v])
           mm == FirstMismatch(v)
       IN  IF mm = 0
           THEN /\ vdata' = [vdata EXCEPT ![v].belief = normalize(TimesUpTo(v, n))]
                /\ worker' = [worker EXCEPT ![k] =
                      IF n = 0 THEN IdleWorker("none")
                      ELSE [@ EXCEPT !.pc = "compute", !.i = 1]]
                /\ update_count' = IF n = 0 THEN update_count + 1 ELSE update_count
                /\ hist' = IF n = 0 THEN [hist EXCEPT !.updates[v] = @ + 1] ELSE hist
           ELSE /\ vdata' = [vdata EXCEPT ![v].belief = TimesUpTo(v, mm - 1)]
                /\ worker' = [worker EXCEPT ![k] = IdleWorker("DimensionMismatch")]
                /\ update_count' = update_count + 1
                /\ hist' = hist
    /\ UNCHANGED <<pc, opts, edges, edata, in_edge_ids, out_edge_ids,
                   shared_data, sched>>

\* the element of a one-element set: each intermediate factor is a value
\* computed once, as the local variables of lines 371-384 are
TheOne(S) == CHOOSE x \in S : TRUE

\* lines 371-373 dividing by the edge's message instead of its snapshot
CavityFromMessage(v, ine) == normalize(divide(vdata[v].belief, edata[ine].message))

\* lines 371-373
Cavity(v, ine) == normalize(divide(vdata[v].belief, edata[ine].old_message))

\* lines 378-384 damping against the out-edge's old_message
NewMessageDampOld(v, ine, oute) ==
    damp(normalize(convolve(shared_data.edge_factor, Cavity(v, ine))),
         edata[oute].old_message, shared_data.damping)

\* lines 378-384: the damped candidate for the out-edge
NewMessage(v, ine, oute) ==
    TheOne({damp(tmp, edata[oute].message, shared_data.damping) :
              tmp \in {normalize(conv) :
                 conv \in {convolve(shared_data.edge_factor, cavity) :
                    cavity \in {Cavity(v, ine)}}}})

\* the operands of lines 372, 380 and 387 agree in arity
ArityAgrees(v, ine, oute, old) ==
    /\ Len(edata[ine].old_message) = Len(vdata[v].belief)
    /\ Len(shared_data.edge_factor) = Len(edata[oute].message)
    /\ \A s \in 1..Len(shared_data.edge_factor) :
           Len(shared_data.edge_factor[s]) = Len(vdata[v].belief)
    /\ Len(old) = Len(edata[oute].message)

\* lines 361-387, one out-edge: cavity, candidate, damping, residual
ComputeMessage(k) ==
    /\ pc = "running"
    /\ worker[k].pc = "compute"
    /\ LET v    == worker[k].v
           i    == worker[k].i
           oute == out_edge_ids[v][i]
           ine  == in_edge_ids[v][i]
       IN  IF edges[oute].target # edges[ine].source
           THEN /\ worker' = [worker EXCEPT ![k] =
                                 [IdleWorker("assert") EXCEPT !.pc = "abort"]]
                /\ UNCHANGED <<hist, update_count>>
           ELSE \E old \in ReadOldMessage(oute) :
                IF ArityAgrees(v, ine, oute, old)
                THEN \E tmp \in {NewMessage(v, ine, oute)} :
                     \E r \in {residual(tmp, old)} :
                         /\ worker' = [worker EXCEPT ![k].tmp_msg = tmp,
                                                     ![k].residual = r,
                                                     ![k].pc = "commit"]
                         /\ hist' = [hist EXCEPT !.lastResid[oute] = r]
                         /\ update_count' = update_count
                ELSE /\ worker' = [worker EXCEPT ![k] = IdleWorker("DimensionMismatch")]
                     /\ hist' = hist
                     /\ update_count' = update_count + 1
    /\ UNCHANGED <<pc, opts, vdata, edges, edata, in_edge_ids, out_edge_ids,
                   shared_data, sched>>

\* line 390 assigning old_message of the out-edge as well
CommitMessageBoth(k) ==
    /\ pc = "running"
    /\ worker[k].pc = "commit"
    /\ LET oute == out_edge_ids[worker[k].v][worker[k].i]
       IN  /\ edata' = [edata EXCEPT ![oute].message = worker[k].tmp_msg,
                                     ![oute].old_message = worker[k].tmp_msg]
           /\ hist' = [hist EXCEPT !.unread[oute] = TRUE]
    /\ worker' = [worker EXCEPT ![k].pc = "push"]
    /\ UNCHANGED <<pc, opts, vdata, edges, in_edge_ids, out_edge_ids,
                   shared_data, sched, update_count>>

\* line 390: out_edge.message = tmp_msg
CommitMessage(k) ==
    /\ pc = "running"
    /\ worker[k].pc = "commit"
    /\ LET oute == out_edge_ids[worker[k].v][worker[k].i]
       IN  /\ edata' = [edata EXCEPT ![oute].message = worker[k].tmp_msg]
           /\ hist' = [hist EXCEPT !.unread[oute] = TRUE]
    /\ worker' = [worker EXCEPT ![k].pc = "push"]
    /\ UNCHANGED <<pc, opts, vdata, edges, in_edge_ids, out_edge_ids,
                   shared_data, sched, update_count>>

\* lines 392-395 without the call of add_task
PushedTasksNone(v, oute, r, bnd) == <<>>

\* lines 392-395 handing add_task a priority below the residual
PushedTasksLow(v, oute, r, bnd) ==
    IF r > bnd
    THEN <<Task(edges[oute].target, r - 1)>>
    ELSE <<>>

\* lines 392-395 with the test residual > bound + 1
PushedTasksAboveOne(v, oute, r, bnd) ==
    IF r > bnd + 1
    THEN <<Task(edges[oute].target, r)>>
    ELSE <<>>

\* lines 392-395 with the test residual >= bound
PushedTasksGe(v, oute, r, bnd) ==
    IF r >= bnd
    THEN <<Task(edges[oute].target, r)>>
    ELSE <<>>

\* lines 392-395: the tasks handed to add_task for one out-edge
PushedTasks(v, oute, r, bnd) ==
    IF r > bnd
    THEN <<Task(edges[oute].target, r)>>
    ELSE <<>>

RECURSIVE AddTasks(_, _)
AddTasks(sc, tasks) ==
    IF tasks = <<>> THEN sc
    ELSE AddTasks(add_task(sc, Head(tasks).vertex, Head(tasks).priority), Tail(tasks))

\* lines 392-396: schedule the neighbour, go to the next out-edge; after the
\* last one bp_update returns, the scope is released, the update is counted
PushNeighbour(k) ==
    /\ pc = "running"
    /\ worker[k].pc = "push"
    /\ LET v     == worker[k].v
           i     == worker[k].i
           tasks == PushedTasks(v, out_edge_ids[v][i], worker[k].residual,
                                shared_data.bound)
           last  == i = Len(out_edge_ids[v])
       IN  /\ sched' = AddTasks(sched, tasks)
           /\ hist' = [hist EXCEPT !.pushes[v] = @ \o tasks,
                                   !.updates[v] = IF last THEN @ + 1 ELSE @]
           /\ worker' = [worker EXCEPT ![k] =
                 IF last THEN IdleWorker("none")
                 ELSE [@ EXCEPT !.i = i + 1, !.pc = "compute"]]
           /\ update_count' = IF last THEN update_count + 1 ELSE update_count
    /\ UNCHANGED <<pc, opts, vdata, edges, edata, in_edge_ids, out_edge_ids,
                   shared_data>>

\* core.start() that returns only when nothing is pending
EngineStopWhenEmpty ==
    /\ pc = "running"
    /\ \A k \in Workers : worker[k].pc = "idle"
    /\ sched = {}
    /\ pc' = "finished"
    /\ UNCHANGED <<opts, vdata, edges, edata, in_edge_ids, out_edge_ids,
                   shared_data, sched, worker, update_count, hist>>

\* core.start() returns: nothing is pending, or the cap is reached
EngineStop ==
    /\ pc = "running"
    /\ \A k \in Workers : worker[k].pc = "idle"
    /\ sched = {} \/ update_count >= opts.max_updates
    /\ pc' = "finished"
    /\ UNCHANGED <<opts, vdata, edges, edata, in_edge_ids, out_edge_ids,
                   shared_data, sched, worker, update_count, hist>>

WorkerStep(k) ==
    \/ GetNextTask(k)
    \/ EnterUpdate(k)
    \/ Snapshot(k)
    \/ ComputeBelief(k)
    \/ ComputeMessage(k)
    \/ CommitMessage(k)
    \/ PushNeighbour(k)

Next ==
    \/ ConstructGraph
    \/ SetSharedData
    \/ AddTaskToAll
    \/ \E k \in Workers : WorkerStep(k)
    \/ EngineStop

Spec == Init /\ [][Next]_vars

\* main runs on, the engine returns when it can, every worker thread keeps
\* taking steps
MainStep == ConstructGraph \/ SetSharedData \/ AddTaskToAll \/ EngineStop

FairSpec ==
    /\ Spec
    /\ WF_vars(MainStep)
    /\ \A k \in Workers : WF_vars(WorkerStep(k))

\* ------------------------------------- bp_update on graphs it did not build
\* The update entry point run by the engine on a single-row graph in which
\* one factor payload may have an arity other than colors.
UCols == MaxDim + 1

\* a factor of arity 1
Malformed == normalize(uniform(1))

\* the payload that is malformed, if any
Sites(n, m) ==
    {<<"none", 0>>, <<"edge_factor", 0>>}
    \cup {<<"potential", v>> : v \in 0..(n - 1)}
    \cup {<<f, e>> : f \in {"message", "old_message"}, e \in 1..m}

InitU ==
    LET n  == UCols
        es == EdgesUpTo(n, 1, UCols)
        m0 == normalize(uniform(colors))
    IN  \E bad \in Sites(n, Len(es)), d \in {0, 1} :
        /\ pc = "running"
        /\ opts = [rows |-> 1, cols |-> UCols, pixel |-> CHOOSE im \in Images(n) : TRUE,
                   smoothing |-> "laplace", scope_type |-> "edge",
                   bound |-> 0, damping |-> d, max_updates |-> MaxUpdates]
        /\ vdata = [v \in 0..(n - 1) |->
                       [potential |-> IF bad = <<"potential", v>> THEN Malformed
                                      ELSE Potential(opts.pixel[v]),
                        belief    |-> m0]]
        /\ edges = es
        /\ edata = [e \in 1..Len(es) |->
                       [message     |-> IF bad = <<"message", e>>
                                        THEN Malformed ELSE m0,
                        old_message |-> IF bad = <<"old_message", e>>
                                        THEN Malformed ELSE m0]]
        /\ in_edge_ids = [v \in 0..(n - 1) |->
              SortIds({e \in 1..Len(es) : es[e].target = v},
                      [e \in 1..Len(es) |-> es[e].source])]
        /\ out_edge_ids = [v \in 0..(n - 1) |->
              SortIds({e \in 1..Len(es) : es[e].source = v},
                      [e \in 1..Len(es) |-> es[e].target])]
        /\ shared_data = [edge_factor |-> IF bad = <<"edge_factor", 0>>
                                          THEN set_as_laplace(1)
                                          ELSE set_as_laplace(colors),
                          bound |-> 0, damping |-> d]
        /\ sched = {Task(v, SeedPriority * Q) : v \in 0..(n - 1)}
        /\ worker = [k \in Workers |-> IdleWorker("none")]
        /\ update_count = 0
        /\ hist = [lastResid |-> [e \in 1..Len(es) |-> -1],
                   unread    |-> [e \in 1..Len(es) |-> FALSE],
                   pushes    |-> [v \in 0..(n - 1) |-> <<>>],
                   updates   |-> [v \in 0..(n - 1) |-> 0]]

NextU ==
    \/ \E k \in Workers : WorkerStep(k)
    \/ EngineStop

SpecU == InitU /\ [][NextU]_vars

\* ------------------------------------------ the edge loops of construct_graph
\* Lines 440-463 cell by cell, on every image of up to GridMax rows and cols.
GridMax == 4

InitGraph ==
    \E r \in 1..GridMax, c \in 1..GridMax :
        /\ pc = "edges"
        /\ opts = [rows |-> r, cols |-> c]
        /\ vdata = [v \in 0..(r * c - 1) |->
                       [potential |-> normalize(uniform(colors)),
                        belief    |-> normalize(uniform(colors))]]
        /\ edges = <<>>
        /\ edata = <<>>
        /\ in_edge_ids = <<>>
        /\ out_edge_ids = <<>>
        /\ shared_data = <<>>
        /\ sched = {}
        /\ worker = [k \in Workers |-> IdleWorker("none")]
        /\ update_count = 0
        /\ hist = [cell |-> 0]

\* one pass of the inner loop body: the four tests of cell (i, j)
AddCellEdges ==
    /\ pc = "edges"
    /\ hist.cell < opts.rows * opts.cols
    /\ LET i   == hist.cell \div opts.cols
           j   == hist.cell % opts.cols
           new == CellEdges(i, j, opts.rows, opts.cols)
           m0  == normalize(uniform(colors))
       IN  /\ edges' = edges \o new
           /\ edata' = edata \o [n \in 1..Len(new) |->
                                    [message |-> m0, old_message |-> m0]]
    /\ hist' = [cell |-> hist.cell + 1]
    /\ UNCHANGED <<pc, opts, vdata, in_edge_ids, out_edge_ids, shared_data,
                   sched, worker, update_count>>

\* line 464: graph.finalize()
Finalize ==
    /\ pc = "edges"
    /\ hist.cell = opts.rows * opts.cols
    /\ in_edge_ids' = [v \in Vertices |->
          SortIds({e \in EdgeIds : edges[e].target = v},
                  [e \in EdgeIds |-> edges[e].source])]
    /\ out_edge_ids' = [v \in Vertices |->
          SortIds({e \in EdgeIds : edges[e].source = v},
                  [e \in EdgeIds |-> edges[e].target])]
    /\ pc' = "finalized"
    /\ UNCHANGED <<opts, vdata, edges, edata, shared_data, sched, worker,
                   update_count, hist>>

NextGraph == AddCellEdges \/ Finalize

SpecGraph == InitGraph /\ [][NextGraph]_vars

\* ------------------------------------------------- the scheduler by itself
\* vertices 0..SchedVerts-1 and the priorities the scheduler is driven with
SchedVerts == 3
Priorities == {2, 5, 9}

NoOptions ==
    [rows |-> 0, cols |-> 0, pixel |-> <<>>, smoothing |-> "laplace",
     scope_type |-> "edge", bound |-> 0, damping |-> 0]

InitSched ==
    /\ pc = "scheduler"
    /\ opts = NoOptions
    /\ vdata = <<>>
    /\ edges = <<>>
    /\ edata = <<>>
    /\ in_edge_ids = <<>>
    /\ out_edge_ids = <<>>
    /\ shared_data = <<>>
    /\ sched = {}
    /\ worker = [k \in Workers |-> IdleWorker("none")]
    /\ update_count = 0
    /\ hist = [ops |-> <<>>, before |-> {}, before2 |-> {}]

\* the last two operations are kept, with the scheduler before each
Remember(ops, op) == IF ops = <<>> THEN <<op>> ELSE <<ops[Len(ops)], op>>

\* push(v, p)
Push(v, p) ==
    /\ pc = "scheduler"
    /\ sched' = add_task(sched, v, p)
    /\ hist' = [ops |-> Remember(hist.ops, [op |-> "push", vertex |-> v, priority |-> p]),
                before |-> sched, before2 |-> hist.before]
    /\ UNCHANGED <<pc, opts, vdata, edges, edata, in_edge_ids, out_edge_ids,
                   shared_data, worker, update_count>>

\* pop(): the top task, or empty (vertex -1) when nothing is pending
Pop ==
    /\ pc = "scheduler"
    /\ IF sched = {}
       THEN /\ sched' = sched
            /\ hist' = [ops |-> Remember(hist.ops,
                                  [op |-> "pop", vertex |-> -1, priority |-> Idle]),
                        before |-> sched, before2 |-> hist.before]
       ELSE LET t == TopTask(sched)
            IN  /\ sched' = remove_task(sched, t)
                /\ hist' = [ops |-> Remember(hist.ops,
                                      [op |-> "pop", vertex |-> t.vertex,
                                       priority |-> t.priority]),
                            before |-> sched, before2 |-> hist.before]
    /\ UNCHANGED <<pc, opts, vdata, edges, edata, in_edge_ids, out_edge_ids,
                   shared_data, worker, update_count>>

NextSched ==
    \/ \E v \in 0..(SchedVerts - 1), p \in Priorities : Push(v, p)
    \/ Pop

SpecSched == InitSched /\ [][NextSched]_vars

LastOp == hist.ops[Len(hist.ops)]
LastTwo(a, b) == Len(hist.ops) = 2 /\ hist.ops[1] = a /\ hist.ops[2] = b
PushOp(v, p) == [op |-> "push", vertex |-> v, priority |-> p]

\* C1: after any pushes and pops, push(v, p) leaves v pending with priority
\* max(c, p), c its pending priority before (p if v was idle); v is pending
\* once, the other vertices are as before, the same push repeated changes
\* nothing; push 5 then 2 on a vertex not above 5 leaves 5, push 5 then 9
\* leaves 9.
C1_PushRaisesToMax ==
    (pc = "scheduler" /\ hist.ops # <<>> /\ LastOp.op = "push") =>
        LET v == LastOp.vertex
            p == LastOp.priority
        IN  /\ PriorityOf(sched, v) = Max(PriorityOf(hist.before, v), p)
            /\ \A u \in Pending(sched) : Cardinality({t \in sched : t.vertex = u}) = 1
            /\ {t \in sched : t.vertex # v} = {t \in hist.before : t.vertex # v}
            /\ LastTwo(PushOp(v, p), PushOp(v, p)) => sched = hist.before
            /\ (LastTwo(PushOp(v, 5), PushOp(v, 2)) /\ PriorityOf(hist.before2, v) <= 5)
                   => PriorityOf(sched, v) = 5
            /\ LastTwo(PushOp(v, 5), PushOp(v, 9)) => PriorityOf(sched, v) = 9

\* a lower push after a higher one on a vertex, another vertex pending
C1_Witness ==
    /\ pc = "scheduler"
    /\ LastTwo(PushOp(1, 5), PushOp(1, 2))
    /\ PriorityOf(hist.before2, 1) = 2
    /\ PriorityOf(sched, 1) = 5
    /\ PriorityOf(sched, 0) = 9

C2_PopState ==
    (pc = "scheduler" /\ hist.ops # <<>> /\ LastOp.op = "pop") =>
        LET v == LastOp.vertex
            b == hist.before
        IN  /\ v = -1 <=> Pending(b) = {}
            /\ v = -1 => sched = b
            /\ v # -1 =>
                 /\ v \in Pending(b)
                 /\ LastOp.priority = PriorityOf(b, v)
                 /\ \A u \in Pending(b) :
                        \/ PriorityOf(b, v) > PriorityOf(b, u)
                        \/ (PriorityOf(b, v) = PriorityOf(b, u) /\ v <= u)
                 /\ v \notin Pending(sched)
                 /\ sched = {t \in b : t.vertex # v}

C2_PopStep ==
    pc = "scheduler" =>
        \A v \in 0..(SchedVerts - 1) :
            (v \notin Pending(sched) /\ v \in Pending(sched')) =>
                (LastOp'.op = "push" /\ LastOp'.vertex = v)

\* C2: pop returns a pending vertex of maximum priority, the lowest id among
\* ties, which is idle afterwards until it is pushed again; pop returns
\* empty exactly when nothing is pending; the result is fixed by the state.
C2_PopReturnsTop == []C2_PopState /\ [][C2_PopStep]_vars

\* a pop that had to break a tie between vertices 1 and 2
C2_Witness ==
    /\ pc = "scheduler"
    /\ hist.ops # <<>>
    /\ LastOp = [op |-> "pop", vertex |-> 1, priority |-> 9]
    /\ hist.before = {Task(0, 5), Task(1, 9), Task(2, 9)}
    /\ sched = {Task(0, 5), Task(2, 9)}

\* ------------------------------------------------------------ the program
Reverse(e) == Edge(e.target, e.source)

InEdges(v) == {in_edge_ids[v][j] : j \in 1..Len(in_edge_ids[v])}
OutEdges(v) == {out_edge_ids[v][j] : j \in 1..Len(out_edge_ids[v])}

\* worker k takes a step of bp_update
UpdateStep(k) == InUpdate(k) /\ worker'[k] # worker[k]

NoDoubleUpdate ==
    \A k, j \in Workers :
        (k # j /\ InUpdate(k) /\ InUpdate(j)) => worker[k].v # worker[j].v

\* a pending vertex stays pending, its priority not lowered, until a pop
\* hands it to a worker
KeepsPending ==
    \A v \in Pending(sched) :
        \/ /\ v \in Pending(sched')
           /\ PriorityOf(sched', v) >= PriorityOf(sched, v)
        \/ /\ v \notin Pending(sched')
           /\ \E k \in Workers : /\ worker[k].pc = "idle"
                                 /\ worker'[k].pc = "acquire"
                                 /\ worker'[k].v = v

\* a push of (w, r) leaves w pending with priority at least r, whatever w is
\* doing
PushLands ==
    \A k \in Workers :
        (/\ worker[k].pc = "push"
         /\ worker'[k] # worker[k]
         /\ worker[k].residual > shared_data.bound) =>
            LET w == edges[out_edge_ids[worker[k].v][worker[k].i]].target
            IN  /\ w \in Pending(sched')
                /\ PriorityOf(sched', w) >= worker[k].residual

UpdateWrites(v) ==
    {<<e, "old_message">> : e \in InEdges(v)} \cup {<<e, "message">> : e \in OutEdges(v)}
UpdateReads(v) ==
    {<<e, f>> : e \in InEdges(v) \cup OutEdges(v), f \in {"message", "old_message"}}

WritesDisjoint ==
    \A k, j \in Workers :
        (k # j /\ InUpdate(k) /\ InUpdate(j)) =>
            UpdateWrites(worker[k].v) \cap UpdateWrites(worker[j].v) = {}

NoConflict ==
    \A k, j \in Workers :
        (k # j /\ InUpdate(k) /\ InUpdate(j)) =>
            UpdateWrites(worker[k].v) \cap UpdateReads(worker[j].v) = {}

\* every copy and every read of a message sees a fully written value
WholeReads ==
    \A k \in Workers :
        /\ worker[k].pc = "snap" =>
              LET e == in_edge_ids[worker[k].v][worker[k].i]
              IN  ReadMessage(e) = {edata[e].message}
        /\ worker[k].pc = "compute" =>
              LET e == out_edge_ids[worker[k].v][worker[k].i]
              IN  ReadOldMessage(e) = {edata[e].old_message}

\* C4 as stated: with only the exclusive lock on its own vertex held by each
\* update, no edge field is written by one in-flight update while another
\* reads or writes it, and every snapshot reads a fully written message.
C4_VertexLockSuffices ==
    (pc = "running" /\ opts.scope_type = "vertex") => (NoConflict /\ WholeReads)

\* C4: the fields written by two in-flight updates are always disjoint; when
\* moreover no update of an adjacent vertex is in flight (the edge scope), no
\* edge field is written by one in-flight update while another reads or
\* writes it, and every snapshot reads a fully written message.
C4_EdgeScopeExclusive ==
    pc = "running" =>
        /\ NoDoubleUpdate
        /\ WritesDisjoint
        /\ opts.scope_type = "edge" => (NoConflict /\ WholeReads)

\* two updates in flight under the edge scope, one about to write a message
\* and one about to copy one
C4_Witness ==
    /\ pc = "running"
    /\ opts.scope_type = "edge"
    /\ \E k, j \in Workers : /\ worker[k].pc = "commit"
                             /\ worker[j].pc = "snap"

\* what a step of the update of v leaves alone in any case
FrameOthers(v) ==
    /\ \A u \in Vertices \ {v} : vdata'[u] = vdata[u]
    /\ vdata'[v].potential = vdata[v].potential
    /\ \A e \in EdgeIds \ (InEdges(v) \cup OutEdges(v)) : edata'[e] = edata[e]

\* C5 as stated: one bp_update of v changes only v's belief and the data of
\* v's outgoing edges; the data of every incoming edge, of every edge not
\* incident to v and of every other vertex is unchanged.
C5_OnlyBeliefAndOutEdges ==
    [][\A k \in Workers : UpdateStep(k) =>
          /\ FrameOthers(worker[k].v)
          /\ \A e \in InEdges(worker[k].v) : edata'[e] = edata[e]]_vars

\* C5: one bp_update of v changes only v's belief, the message of v's
\* outgoing edges and, in its snapshot loop, the old_message of v's incoming
\* edges, which becomes a copy of the edge's message; the message of every
\* incoming edge, the old_message of every outgoing edge, every edge not
\* incident to v and every other vertex are unchanged, and once the snapshot
\* is taken old_message is only read.
C5_WritesOwnBeliefOutMessagesInSnapshots ==
    [][\A k \in Workers : UpdateStep(k) =>
          LET v == worker[k].v
          IN  /\ FrameOthers(v)
              /\ \A e \in InEdges(v) : edata'[e].message = edata[e].message
              /\ \A e \in OutEdges(v) : edata'[e].old_message = edata[e].old_message
              /\ \A e \in InEdges(v) :
                    \/ edata'[e].old_message = edata[e].old_message
                    \/ /\ worker[k].pc = "snap"
                       /\ e = in_edge_ids[v][worker[k].i]
                       /\ edata'[e].old_message \in ReadMessage(e)
              /\ worker[k].pc # "belief" => vdata'[v] = vdata[v]
              /\ worker[k].pc # "commit" =>
                    \A e \in OutEdges(v) : edata'[e] = edata[e]]_vars

\* an update has copied a new message into the old_message of an incoming
\* edge and has gone on to its belief
C5_Witness ==
    /\ pc = "running"
    /\ \E k \in Workers :
          /\ worker[k].pc = "compute"
          /\ \E j \in 1..Len(in_edge_ids[worker[k].v]) :
                edata[in_edge_ids[worker[k].v][j]].old_message
                    # worker[k].pre.old_message[j]
          /\ vdata[worker[k].v].belief # worker[k].pre.belief

\* OwnData(v) in the state a step leads to
OwnDataAfter(v) ==
    [belief      |-> vdata'[v].belief,
     old_message |-> [i \in 1..Len(in_edge_ids[v]) |->
                         edata'[in_edge_ids[v][i]].old_message],
     message     |-> [i \in 1..Len(out_edge_ids[v]) |->
                         edata'[out_edge_ids[v][i]].message]]

\* C7: an update of v that meets factor operands of unequal arity ends with
\* DimensionMismatch and leaves the shared state as it was when the update
\* began: v's belief, the old_message of v's incoming edges and the message
\* of v's outgoing edges are those saved at entry, and the update has pushed
\* no vertex.
C7_MismatchLeavesStateIntact ==
    [][\A k \in Workers :
          (InUpdate(k) /\ worker'[k].status = "DimensionMismatch") =>
              /\ OwnDataAfter(worker[k].v) = worker[k].pre
              /\ hist'.pushes[worker[k].v] = <<>>]_vars

\* nothing is in flight and nothing is pending
Quiescent ==
    /\ pc \in {"running", "finished"}
    /\ sched = {}
    /\ \A k \in Workers : worker[k].pc = "idle"

\* C6 as stated: when the scheduler is empty and no update is in flight, the
\* residual computed for every edge by the last update of its source is at
\* most bound.
C6_AllResidualsWithinBound ==
    Quiescent => \A e \in EdgeIds : hist.lastResid[e] <= shared_data.bound

\* C6: when the scheduler is empty and no update is in flight, every edge
\* whose last computed residual is above bound has had its message copied by
\* an update of its target that started after the message was written: no
\* change above bound is left unpropagated.
C6_NoChangeLeftUnpropagated ==
    Quiescent =>
        \A e \in EdgeIds :
            hist.lastResid[e] > shared_data.bound => ~hist.unread[e]

\* quiescence with an edge whose last residual is above bound
C6_Witness ==
    /\ Quiescent
    /\ \E e \in EdgeIds : hist.lastResid[e] > shared_data.bound /\ ~hist.unread[e]

\* C8: with a smoothing name that is not recognised the run fails before
\* inference starts: no vertex is seeded, the engine is never started, no
\* bp_update is executed.
C8_InvalidSmoothingFailsFast ==
    (pc # "scheduler" /\ opts.smoothing \notin {"square", "laplace"}) =>
        /\ pc \in {"construct", "smoothing", "exit_failure"}
        /\ sched = {}
        /\ shared_data = <<>>
        /\ update_count = 0
        /\ \A k \in Workers : worker[k] = IdleWorker("none")
        /\ \A v \in Vertices : vdata[v].belief = normalize(uniform(colors))

\* main has returned EXIT_FAILURE on the unknown name, the graph built
C8_Witness ==
    /\ pc = "exit_failure"
    /\ opts.smoothing = "gauss"
    /\ Vertices # {}

\* C9: in the graph construct_graph builds, every directed edge has exactly
\* one reverse edge, there are no self-loops and no duplicate edges; every
\* vertex has as many in-edges as out-edges and, both lists ordered by
\* neighbour id, the i-th out-edge's target is the i-th in-edge's source, so
\* the two assertions of bp_update hold in every update.
C9_EdgesPaired ==
    pc \notin {"construct", "scheduler"} =>
        /\ \A e \in EdgeIds :
              /\ edges[e].source \in Vertices
              /\ edges[e].target \in Vertices
              /\ edges[e].source # edges[e].target
              /\ Cardinality({f \in EdgeIds : edges[f] = edges[e]}) = 1
              /\ Cardinality({f \in EdgeIds : edges[f] = Reverse(edges[e])}) = 1
        /\ \A v \in Vertices :
              /\ Len(in_edge_ids[v]) = Len(out_edge_ids[v])
              /\ \A i \in 1..Len(out_edge_ids[v]) :
                    edges[out_edge_ids[v][i]].target = edges[in_edge_ids[v][i]].source
        /\ \A k \in Workers : worker[k].pc # "abort"

\* an update on the 2 x 2 image has passed both assertions for its second edge
C9_Witness ==
    /\ pc = "running"
    /\ opts.rows = 2 /\ opts.cols = 2
    /\ \E k \in Workers : worker[k].pc = "commit" /\ worker[k].i = 2

\* out-edge j of v has been handled by the latest update of v
Handled(v, j) ==
    IF \E k \in Workers : InUpdate(k) /\ worker[k].v = v
    THEN \E k \in Workers :
            /\ InUpdate(k) /\ worker[k].v = v
            /\ worker[k].pc \in {"compute", "commit", "push"}
            /\ j < worker[k].i
    ELSE hist.lastResid[out_edge_ids[v][j]] # -1

\* the pushes claimed for the first n out-edges of v
RECURSIVE ExpectedPushes(_, _)
ExpectedPushes(v, n) ==
    IF n = 0 THEN <<>>
    ELSE LET e == out_edge_ids[v][n]
         IN  ExpectedPushes(v, n - 1)
             \o (IF Handled(v, n) /\ hist.lastResid[e] > shared_data.bound
                 THEN <<Task(edges[e].target, hist.lastResid[e])>>
                 ELSE <<>>)

\* C10: an update of v pushes (w, r) exactly when w is the target of an
\* out-edge of v whose residual r, just computed, is above bound; a residual
\* equal to bound pushes nothing, the priority is that residual, and v never
\* pushes itself.
C10_PushIffResidualAboveBound ==
    pc \in {"running", "finished"} =>
        \A v \in Vertices :
            /\ hist.pushes[v] = ExpectedPushes(v, Len(out_edge_ids[v]))
            /\ \A n \in 1..Len(hist.pushes[v]) : hist.pushes[v][n].vertex # v

\* a finished update with a residual equal to a positive bound, not pushed,
\* and one with a residual above it, pushed
C10_Witness ==
    /\ pc = "running"
    /\ shared_data.bound = 1
    /\ \E e \in EdgeIds :
          /\ ~InFlight(edges[e].source)
          /\ hist.lastResid[e] = shared_data.bound
    /\ \E e \in EdgeIds :
          /\ ~InFlight(edges[e].source)
          /\ hist.lastResid[e] > shared_data.bound
          /\ Task(edges[e].target, hist.lastResid[e]) \in
                {hist.pushes[edges[e].source][n] :
                    n \in 1..Len(hist.pushes[edges[e].source])}

\* the engine has returned in order: every worker outside bp_update with no
\* failure, and nothing pending or the cap reached
Ended ==
    /\ \A k \in Workers : worker[k] = IdleWorker("none")
    /\ sched = {} \/ update_count >= opts.max_updates
    /\ update_count <= opts.max_updates

\* a worker leaves bp_update only from its last statement
RunsToCompletion ==
    \A k \in Workers :
        (InUpdate(k) /\ ~InUpdate(k)') =>
            LET v == worker[k].v
            IN  /\ worker'[k] = IdleWorker("none")
                /\ \/ worker[k].pc = "push" /\ worker[k].i = Len(out_edge_ids[v])
                   \/ worker[k].pc = "belief" /\ Len(out_edge_ids[v]) = 0

\* C11: with the engine's cap on updates and fair workers every run of the
\* engine terminates, with the scheduler empty and nothing in flight or with
\* the cap reached; reaching the cap with vertices pending is an ordinary
\* end of the run, not a failure, and no update is cut short.
C11_RunTerminates ==
    /\ (pc = "running") ~> (pc = "finished")
    /\ [](pc = "finished" => Ended)
    /\ [][RunsToCompletion]_vars

\* the engine has returned at the cap with vertices still pending
C11_Witness ==
    /\ pc = "finished"
    /\ sched # {}
    /\ update_count = opts.max_updates
    /\ opts.max_updates = MaxUpdates

\* the belief lines 340-348 make of a potential and a sequence of snapshots
RECURSIVE ProductOf(_, _, _)
ProductOf(pot, snaps, n) ==
    IF n = 0 THEN pot ELSE times(ProductOf(pot, snaps, n - 1), snaps[n])

BeliefFrom(pot, snaps) == normalize(ProductOf(pot, snaps, Len(snaps)))

\* the message lines 371-384 make of a belief, the snapshot of the reverse
\* edge and the previous message of the out-edge
MessageFrom(belief, snap, prev) ==
    damp(normalize(convolve(shared_data.edge_factor, normalize(divide(belief, snap)))),
         prev, shared_data.damping)

\* the snapshots of v: old_message of its incoming edges
Snapshots(v) ==
    [j \in 1..Len(in_edge_ids[v]) |-> edata[in_edge_ids[v][j]].old_message]

\* where an update stands, its results are those of its own snapshots
FromSnapshots(k) ==
    LET v  == worker[k].v
        i  == worker[k].i
        sn == Snapshots(v)
        b  == BeliefFrom(vdata[v].potential, sn)
        written == IF worker[k].pc = "push" THEN i ELSE i - 1
    IN  /\ worker[k].pc \in {"snap", "belief"} =>
              /\ vdata[v].belief = worker[k].pre.belief
              /\ \A j \in 1..Len(out_edge_ids[v]) :
                    edata[out_edge_ids[v][j]].message = worker[k].pre.message[j]
        /\ worker[k].pc \in {"compute", "commit", "push"} =>
              /\ vdata[v].belief = b
              /\ \A j \in 1..Len(out_edge_ids[v]) :
                    edata[out_edge_ids[v][j]].message =
                        IF j <= written
                        THEN MessageFrom(b, sn[j], worker[k].pre.message[j])
                        ELSE worker[k].pre.message[j]
              /\ worker[k].pc = "commit" =>
                    worker[k].tmp_msg = MessageFrom(b, sn[i], worker[k].pre.message[i])

\* once the snapshot loop is over, no step of any worker changes a snapshot
SnapshotsKept ==
    \A k \in Workers :
        worker[k].pc \in {"belief", "compute", "commit", "push"} =>
            \A e \in InEdges(worker[k].v) :
                edata'[e].old_message = edata[e].old_message

\* C12: an update of v takes the snapshot of every incoming edge before it
\* computes the belief and before it writes any outgoing message; its
\* belief and every message it commits are functions of v's potential, of
\* these snapshots and of the previous outgoing messages, and a message a
\* neighbour writes on an incoming edge after the snapshot changes neither.
C12_ResultsFromOwnSnapshots ==
    /\ [](pc = "running" => \A k \in Workers : InUpdate(k) => FromSnapshots(k))
    /\ [][SnapshotsKept]_vars

\* an update has committed a message while an incoming edge carries a
\* message its neighbour wrote after the snapshot
C12_Witness ==
    /\ pc = "running"
    /\ \E k \in Workers :
          /\ worker[k].pc = "push"
          /\ \E e \in InEdges(worker[k].v) :
                /\ hist.unread[e]
                /\ edata[e].message # edata[e].old_message

\* lines 384-387: the candidate is damped against the edge's message, and
\* nothing is written yet
DampThenResidual(k) ==
    (worker[k].pc = "compute" /\ worker'[k].pc = "commit") =>
        LET v    == worker[k].v
            oute == out_edge_ids[v][worker[k].i]
            ine  == in_edge_ids[v][worker[k].i]
        IN  /\ worker'[k].tmp_msg =
                  MessageFrom(vdata[v].belief, edata[ine].old_message,
                              edata[oute].message)
            /\ edata' = edata

\* line 387: the residual is the distance to the edge's old_message
ResidualToOldMessage(k) ==
    (worker[k].pc = "compute" /\ worker'[k].pc = "commit") =>
        LET oute == out_edge_ids[worker[k].v][worker[k].i]
        IN  worker'[k].residual =
                residual(worker'[k].tmp_msg, edata[oute].old_message)

\* line 390: the commit writes the candidate, and the message only
CommitAfterResidual(k) ==
    (worker[k].pc = "commit" /\ worker'[k].pc = "push") =>
        LET oute == out_edge_ids[worker[k].v][worker[k].i]
        IN  /\ edata'[oute].message = worker[k].tmp_msg
            /\ edata'[oute].old_message = edata[oute].old_message
            /\ worker'[k].residual = worker[k].residual

\* old_message of an edge is written by the snapshot of its target alone
OldMessageIsTargetsSnapshot ==
    \A e \in EdgeIds :
        edata'[e].old_message # edata[e].old_message =>
            \E k \in Workers :
                /\ worker[k].pc = "snap"
                /\ worker'[k] # worker[k]
                /\ worker[k].v = edges[e].target
                /\ in_edge_ids[worker[k].v][worker[k].i] = e

\* until its target first snapshots it, old_message is the uniform message
UniformUntilSnapshot ==
    pc \in {"running", "finished"} =>
        \A e \in EdgeIds :
            (hist.updates[edges[e].target] = 0 /\ ~InFlight(edges[e].target)) =>
                edata[e].old_message = normalize(uniform(colors))

\* C13 as stated: for each out-edge the update damps the candidate against
\* the edge's message, takes the residual against the edge's old_message,
\* the value its target last snapshotted, and only then commits; it never
\* changes old_message of an out-edge.
C13_ResidualAgainstTargetSnapshot ==
    /\ []UniformUntilSnapshot
    /\ [][/\ OldMessageIsTargetsSnapshot
          /\ \A k \in Workers : /\ DampThenResidual(k)
                                /\ ResidualToOldMessage(k)
                                /\ CommitAfterResidual(k)]_vars

\* C13: for each out-edge the update damps the candidate against the edge's
\* message, computes the residual and only then commits; it never changes
\* old_message of an out-edge, which only the snapshot of its target writes
\* (the uniform message until then); when no update of the target is in
\* flight (the edge scope) the residual is the distance to that old_message.
C13_ResidualAgainstOldMessage ==
    /\ []UniformUntilSnapshot
    /\ [][/\ OldMessageIsTargetsSnapshot
          /\ \A k \in Workers : /\ DampThenResidual(k)
                                /\ opts.scope_type = "edge" => ResidualToOldMessage(k)
                                /\ CommitAfterResidual(k)]_vars

\* a residual above zero has been computed against an old_message that the
\* target snapshotted from an earlier message of this edge
C13_Witness ==
    /\ pc = "running"
    /\ opts.scope_type = "edge"
    /\ \E k \in Workers :
          /\ worker[k].pc = "commit"
          /\ worker[k].residual > 0
          /\ LET oute == out_edge_ids[worker[k].v][worker[k].i]
             IN  /\ edata[oute].old_message # normalize(uniform(colors))
                 /\ edata[oute].message # worker[k].tmp_msg
                 /\ hist.updates[worker[k].v] > 0
                 /\ hist.updates[edges[oute].target] > 0

\* row, column and Manhattan distance of cells given by their vertex ids
RowOf(a) == a \div opts.cols
ColOf(a) == a % opts.cols
Manhattan(a, b) == Abs(RowOf(a) - RowOf(b)) + Abs(ColOf(a) - ColOf(b))

EdgeSet == {edges[e] : e \in EdgeIds}
OutDegree(a) == Cardinality({e \in EdgeIds : edges[e].source = a})
OnBoundary(a) ==
    \/ RowOf(a) = 0 \/ RowOf(a) = opts.rows - 1
    \/ ColOf(a) = 0 \/ ColOf(a) = opts.cols - 1

\* C14: for every image construct_graph adds the directed edge (a, b)
\* exactly when a and b are cells at Manhattan distance 1, once each, so
\* every link of the lattice gives two directed edges and a boundary cell
\* has fewer than 4 neighbours; in row 0 and column 0 the unsigned i-1 and
\* j-1 wrap to the largest value of the word, the test fails and no edge
\* leaves the image.
C14_EdgesAreLatticeLinks ==
    /\ pc = "edges" => edges = EdgesUpTo(hist.cell, opts.rows, opts.cols)
    /\ pc = "finalized" =>
          /\ EdgeSet = {Edge(a, b) : a, b \in Vertices} \cap
                       {x \in [source : Vertices, target : Vertices] :
                            Manhattan(x.source, x.target) = 1}
          /\ Cardinality(EdgeSet) = Len(edges)
          /\ Len(edges) = 2 * (opts.rows * (opts.cols - 1)
                               + opts.cols * (opts.rows - 1))
          /\ \A a \in Vertices :
                /\ OnBoundary(a) => OutDegree(a) < 4
                /\ ~OnBoundary(a) => OutDegree(a) = 4
                /\ Len(in_edge_ids[a]) = OutDegree(a)
          /\ Dec(0) = WordModulus - 1
          /\ ~(Dec(0) < opts.rows) /\ ~(Dec(0) < opts.cols)
          /\ CellEdges(0, 0, opts.rows, opts.cols) =
                (IF 1 < opts.rows THEN <<Edge(0, opts.cols)>> ELSE <<>>)
                \o (IF 1 < opts.cols THEN <<Edge(0, 1)>> ELSE <<>>)

\* a finished image with an inner cell of 4 neighbours, corners of 2 and
\* more columns than rows
C14_Witness ==
    /\ pc = "finalized"
    /\ opts.rows = 3 /\ opts.cols = 4
    /\ \E a \in Vertices : OutDegree(a) = 4
    /\ OutDegree(0) = 2

AllUpdated == \A v \in Vertices : hist.updates[v] >= 1

\* when the engine starts every vertex is pending with the seed priority and
\* no update has run
SeededAtStart ==
    (pc = "add_tasks" /\ pc' = "running") =>
        /\ sched' = {Task(v, SeedPriority * Q) : v \in Vertices}
        /\ update_count' = 0
        /\ \A v \in Vertices : hist'.updates[v] = 0
        /\ \A k \in Workers : worker'[k] = IdleWorker("none")

\* a run that ends with the scheduler empty has updated every vertex
EmptyEndUpdatedAll == (pc = "finished" /\ sched = {}) => AllUpdated

EdgeResidual(e) == residual(edata[e].message, edata[e].old_message)

\* C16: when the updates of adjacent vertices do not overlap and bound >= 0,
\* in every state where nothing is pending and nothing is in flight every
\* directed edge has residual(message, old_message) <= bound; at the start
\* message = old_message on every edge.
C16_QuiescentEdgesWithinBound ==
    /\ (pc = "smoothing") => \A e \in EdgeIds : edata[e].message = edata[e].old_message
    /\ (Quiescent /\ opts.scope_type = "edge" /\ shared_data.bound >= 0) =>
          \A e \in EdgeIds : EdgeResidual(e) <= shared_data.bound

\* quiescence after updates, with an edge whose message is off its target's
\* copy by exactly a positive bound
C16_Witness ==
    /\ Quiescent
    /\ opts.scope_type = "edge"
    /\ shared_data.bound = 1
    /\ AllUpdated
    /\ \E e \in EdgeIds : EdgeResidual(e) = 1 /\ hist.lastResid[e] = 1

\* the locations a step of the update of v never assigns
NeverWritten(v) ==
    /\ \A u \in Vertices : vdata'[u].potential = vdata[u].potential
    /\ \A u \in Vertices \ {v} : vdata'[u].belief = vdata[u].belief
    /\ \A e \in EdgeIds \ OutEdges(v) : edata'[e].message = edata[e].message
    /\ \A e \in EdgeIds \ InEdges(v) : edata'[e].old_message = edata[e].old_message
    /\ edges' = edges
    /\ in_edge_ids' = in_edge_ids
    /\ out_edge_ids' = out_edge_ids
    /\ shared_data' = shared_data

\* the location each statement of the update assigns, every incoming edge
\* and every outgoing edge in its turn
WrittenInTurn(k) ==
    LET v == worker[k].v
        i == worker[k].i
    IN  /\ worker[k].pc = "snap" =>
              /\ edata'[in_edge_ids[v][i]].old_message \in ReadMessage(in_edge_ids[v][i])
              /\ \A e \in InEdges(v) \ {in_edge_ids[v][i]} :
                    edata'[e].old_message = edata[e].old_message
              /\ i < Len(in_edge_ids[v]) =>
                    (worker'[k].pc = "snap" /\ worker'[k].i = i + 1)
              /\ i = Len(in_edge_ids[v]) => worker'[k].pc = "belief"
        /\ worker[k].pc = "belief" =>
              vdata'[v].belief = BeliefFrom(vdata[v].potential, Snapshots(v))
        /\ worker[k].pc = "commit" =>
              /\ edata'[out_edge_ids[v][i]].message = worker[k].tmp_msg
              /\ \A e \in OutEdges(v) \ {out_edge_ids[v][i]} :
                    edata'[e].message = edata[e].message
        /\ (worker[k].pc = "push" /\ i < Len(out_edge_ids[v])) =>
              (worker'[k].pc = "compute" /\ worker'[k].i = i + 1)
        /\ worker[k].pc # "belief" => vdata'[v].belief = vdata[v].belief
        /\ worker[k].pc # "snap" =>
              \A e \in InEdges(v) : edata'[e].old_message = edata[e].old_message
        /\ worker[k].pc # "commit" =>
              \A e \in OutEdges(v) : edata'[e].message = edata[e].message

\* C17: an update of v writes exactly v's belief, old_message of each
\* incoming edge of v and message of each outgoing edge of v; it never writes
\* a potential, another vertex's belief, message of an incoming edge or
\* old_message of an outgoing edge, and never changes the topology or the
\* shared constants (edge factor, bound, damping).
C17_WriteSet ==
    [][\A k \in Workers : UpdateStep(k) =>
          (NeverWritten(worker[k].v) /\ WrittenInTurn(k))]_vars

\* an update of a vertex with two neighbours has written its belief, both
\* snapshots and both messages, each to a new value
C17_Witness ==
    /\ pc = "running"
    /\ \E k \in Workers :
          LET v == worker[k].v
          IN  /\ worker[k].pc = "push"
              /\ worker[k].i = 2
              /\ Len(out_edge_ids[v]) = 2
              /\ vdata[v].belief # worker[k].pre.belief
              /\ \A j \in 1..2 :
                    /\ edata[out_edge_ids[v][j]].message # worker[k].pre.message[j]
                    /\ edata[in_edge_ids[v][j]].old_message
                           # worker[k].pre.old_message[j]

\* the engine runs with damping factor 1.0
FullDamping == pc \in {"running", "finished"} /\ shared_data.damping = DampDen

\* with damping 1.0 every message stays the uniform message it was built
\* with, no residual is above zero, nothing is pushed, no vertex runs twice
NothingMoves ==
    FullDamping =>
        /\ \A e \in EdgeIds :
              /\ edata[e].message = normalize(uniform(colors))
              /\ edata[e].old_message = normalize(uniform(colors))
              /\ hist.lastResid[e] <= 0
              /\ hist.lastResid[e] <= shared_data.bound
        /\ \A k \in Workers :
              worker[k].pc \in {"commit", "push"} =>
                  /\ worker[k].residual = 0
                  /\ worker[k].tmp_msg =
                        edata[out_edge_ids[worker[k].v][worker[k].i]].message
        /\ \A v \in Vertices : hist.pushes[v] = <<>> /\ hist.updates[v] <= 1
        /\ \A t \in sched : t.priority = SeedPriority * Q /\ hist.updates[t.vertex] = 0

OneUpdateEach == sched = {} /\ \A v \in Vertices : hist.updates[v] = 1

====
